---- MODULE Spec2Model ----
(***************************************************************************)
(* crates.io identity and credential core (src/models/user.rs):            *)
(*   NewUser::create_or_update  the transactional upsert of a user row     *)
(*                              and its verification-email side effect     *)
(*   User::find_by_api_token    the bearer-token authentication gate       *)
(*   User::rights               the rights of an actor over an owner list  *)
(* together with the token endpoints exercised by src/tests/token.rs.      *)
(*                                                                         *)
(* The database is modelled as its committed tables plus, for every        *)
(* request in flight, the writes its open transaction has made but not     *)
(* committed (READ COMMITTED: nobody else sees them).  A statement is one  *)
(* atomic step; statements of different requests interleave freely.        *)
(***************************************************************************)
EXTENDS Integers, Sequences, FiniteSets, TLC

\* ------------------------------------------------------------- bounds
NumProcs == 2
\* values the users.id sequence may hand out
MaxUsers == 2
\* values the api_tokens.id sequence may hand out
MaxTokens == 2
\* readings of the database clock
MaxClock == 2

\* owners in the list handed to User::rights
MaxOwners == 3

\* credentials a user may hold before PUT /api/v1/me/tokens refuses (the
\* tests fill a user up with 1000)
MaxTokensPerUser == 1

\* ---------------------------------------------------------- constants
\* gh_id of a user whose GitHub id could not be backfilled
Sentinel == -1

\* Option<T>
None == <<>>
Some(x) == <<x>>

Procs == 1..NumProcs
UserIds == 1..MaxUsers
GhIds == {Sentinel, 0, 1}
Addresses == {None, Some("a@x.com"), Some("b@x.com")}
\* the fields a reconciliation overwrites, as two GitHub profiles that
\* differ in every one of them
Profiles ==
    { [gh_login |-> "foo", name |-> None, gh_avatar |-> None,
       gh_access_token |-> "gh1"],
      [gh_login |-> "bar", name |-> Some("Bar"), gh_avatar |-> Some("bar.png"),
       gh_access_token |-> "gh2"] }
\* tokens the emails table may generate for a new record
EmailTokens == {"e1", "e2"}

\* NewUser::new
NewUser(gh_id, gh_login, email, name, gh_avatar, gh_access_token) ==
    [gh_id |-> gh_id, gh_login |-> gh_login, email |-> email, name |-> name,
     gh_avatar |-> gh_avatar, gh_access_token |-> gh_access_token]

\* every candidate identity record a caller may present
NewUsers ==
    { NewUser(g, pr.gh_login, em, pr.name, pr.gh_avatar, pr.gh_access_token) :
        g \in GhIds, pr \in Profiles, em \in Addresses }

VARIABLES
    users,          \* committed users table: id -> User
    users_id_seq,   \* last value handed out by the users.id sequence
    emails,         \* committed emails table: set of Email records
    outbox,         \* (user id, address) pairs a verification mail went to
    confirm_mails,  \* per user id: mails sent by calls that committed
    api_tokens,     \* api_tokens table: id -> ApiToken
    api_tokens_id_seq, \* last value handed out by the api_tokens.id sequence
    tx,             \* per process: its request in flight
    last            \* the result most recently returned to a caller

vars == <<users, users_id_seq, emails, outbox, confirm_mails, api_tokens,
          api_tokens_id_seq, tx, last>>

identity == <<users, users_id_seq, emails, outbox, confirm_mails>>
credentials == <<api_tokens, api_tokens_id_seq>>

Idle == [pc |-> "idle"]

InFlight(p) == tx[p].pc \in {"upserted", "ready"}

\* ------------------------------------------------ create_or_update

\* a conflict target that matches no row: every call inserts
NoConflictTarget(gh_id) == FALSE

\* a conflict target without the WHERE clause: plain (gh_id)
ConflictOnEveryGhId(gh_id) == TRUE

\* the arbiter of ON CONFLICT: the partial unique index (gh_id) WHERE gh_id > 0
InConflictIndex(gh_id) == gh_id > 0

\* ids of committed rows the incoming row conflicts with
Conflicting(tbl, nu) ==
    { id \in DOMAIN tbl :
        InConflictIndex(nu.gh_id) /\ InConflictIndex(tbl[id].gh_id)
        /\ tbl[id].gh_id = nu.gh_id }

\* INSERT: the row as inserted under a fresh id
Inserted(nu, id) ==
    [id |-> id, email |-> nu.email, gh_access_token |-> nu.gh_access_token,
     gh_login |-> nu.gh_login, name |-> nu.name, gh_avatar |-> nu.gh_avatar,
     gh_id |-> nu.gh_id]

\* a SET list that leaves out gh_access_token
DoUpdateKeepsToken(row, nu) ==
    [row EXCEPT !.gh_login = nu.gh_login, !.name = nu.name,
                !.gh_avatar = nu.gh_avatar]

\* a SET list that takes email from the incoming row as well
DoUpdateWithEmail(row, nu) ==
    [row EXCEPT !.gh_login = nu.gh_login, !.name = nu.name,
                !.gh_avatar = nu.gh_avatar,
                !.gh_access_token = nu.gh_access_token,
                !.email = nu.email]

\* DO UPDATE SET: the existing row with the four columns taken from the
\* excluded (incoming) row
DoUpdate(row, nu) ==
    [row EXCEPT !.gh_login = nu.gh_login, !.name = nu.name,
                !.gh_avatar = nu.gh_avatar,
                !.gh_access_token = nu.gh_access_token]

\* another open transaction holds the index entry this row needs: the
\* statement waits until that transaction ends
Blocked(p, nu) ==
    \E q \in Procs \ {p} :
        /\ InFlight(q)
        /\ InConflictIndex(nu.gh_id)
        /\ InConflictIndex(tx[q].row.gh_id)
        /\ tx[q].row.gh_id = nu.gh_id

\* insert_into(users) ... on_conflict ... do_update ... get_result
Upsert(p, nu) ==
    /\ tx[p].pc = "idle"
    /\ ~Blocked(p, nu)
    /\ LET hit == Conflicting(users, nu) IN
       IF hit = {}
       THEN /\ users_id_seq < MaxUsers
            /\ users_id_seq' = users_id_seq + 1
            /\ tx' = [tx EXCEPT ![p] =
                        [pc |-> "upserted", nu |-> nu, inserted |-> TRUE,
                         row |-> Inserted(nu, users_id_seq + 1),
                         mail |-> {}, sent |-> FALSE]]
       ELSE /\ users_id_seq' = users_id_seq
            /\ tx' = [tx EXCEPT ![p] =
                        [pc |-> "upserted", nu |-> nu, inserted |-> FALSE,
                         row |-> DoUpdate(users[CHOOSE id \in hit : TRUE], nu),
                         mail |-> {}, sent |-> FALSE]]
    /\ UNCHANGED <<users, emails, outbox, confirm_mails, last, credentials>>

\* NewEmail
NewEmail(user_id, email) == [user_id |-> user_id, email |-> email]

\* the unique key of the emails table
EmailConflict(tbl, ne) ==
    \E e \in tbl : e.user_id = ne.user_id /\ e.email = ne.email

\* an upsert in place of insert-if-absent: a conflict yields a row as well
OnConflictDoUpdate(tbl, ne, token) ==
    { [user_id |-> ne.user_id, email |-> ne.email, token |-> token,
       verified |-> FALSE] }

\* insert_into(emails) ... on_conflict_do_nothing ... returning(token):
\* the rows the statement adds (none on a conflict)
OnConflictDoNothing(tbl, ne, token) ==
    IF EmailConflict(tbl, ne)
    THEN {}
    ELSE { [user_id |-> ne.user_id, email |-> ne.email, token |-> token,
            verified |-> FALSE] }

\* if let Some(token) = token: the mail goes out only for a record just made
ShouldSend(added) == added # {}

\* no enclosing transaction: the upsert statement stays written
NotRolledBack(tbl, written) ==
    [id \in DOMAIN tbl \cup {written.id} |->
        IF id = written.id THEN written ELSE tbl[id]]

\* transaction rollback: what the tables hold once the closure returned Err
RolledBack(tbl, written) == tbl

\* the closure returns Err: roll back and hand the error to the caller
Fail(p, err) ==
    /\ users' = RolledBack(users, tx[p].row)
    /\ emails' = emails
    /\ tx' = [tx EXCEPT ![p] = Idle]
    /\ last' = [op |-> "create_or_update", result |-> err]
    /\ UNCHANGED <<users_id_seq, confirm_mails, credentials>>

\* lines 85-102: the Email record and the verification mail
EmailStep(p) ==
    /\ tx[p].pc = "upserted"
    /\ LET user == tx[p].row IN
       IF user.email = None
       THEN /\ tx' = [tx EXCEPT ![p].pc = "ready"]
            /\ UNCHANGED <<identity, credentials, last>>
       ELSE \E token \in EmailTokens :
            LET added == OnConflictDoNothing(emails,
                             NewEmail(user.id, user.email[1]), token) IN
            IF ~ShouldSend(added)
            THEN /\ tx' = [tx EXCEPT ![p].pc = "ready"]
                 /\ UNCHANGED <<identity, credentials, last>>
            ELSE \/ \* send_user_confirm_email returned Ok
                    /\ tx' = [tx EXCEPT ![p].pc = "ready", ![p].mail = added,
                                        ![p].sent = TRUE]
                    /\ outbox' = outbox \cup {<<user.id, user.email[1]>>}
                    /\ UNCHANGED <<users, users_id_seq, emails, confirm_mails,
                                   credentials, last>>
                 \/ \* send_user_confirm_email returned Err: map_err(|_| NotFound)?
                    /\ Fail(p, "NotFound")
                    /\ UNCHANGED outbox

\* a statement or the commit itself fails with a database error
DbError(p) ==
    /\ InFlight(p)
    /\ Fail(p, "DatabaseError")
    /\ UNCHANGED outbox

\* Ok(user): the transaction commits
Commit(p) ==
    /\ tx[p].pc = "ready"
    /\ LET user == tx[p].row IN
       /\ users' = [id \in DOMAIN users \cup {user.id} |->
                       IF id = user.id THEN user ELSE users[id]]
       /\ emails' = emails \cup tx[p].mail
       /\ confirm_mails' =
            IF tx[p].sent
            THEN [confirm_mails EXCEPT ![user.id] = @ + 1]
            ELSE confirm_mails
       /\ last' = [op |-> "create_or_update", result |-> "Ok", user |-> user,
                   inserted |-> tx[p].inserted]
    /\ tx' = [tx EXCEPT ![p] = Idle]
    /\ UNCHANGED <<users_id_seq, outbox, credentials>>

\* the out-of-band confirmation flow marks an Email record verified
ConfirmEmail(e) ==
    /\ e \in emails
    /\ ~e.verified
    /\ emails' = (emails \ {e}) \cup {[e EXCEPT !.verified = TRUE]}
    /\ UNCHANGED <<users, users_id_seq, outbox, confirm_mails, credentials,
                   tx, last>>

\* ------------------------------------------------------ api tokens

\* the plaintext generated for the credential with this id: random, so
\* never the value of another credential
TokenValue(id) == <<"cio", id>>

TokenIds == 1..MaxTokens
\* what a caller may put in the Authorization header: every value that may
\* ever be issued, and one that never is
Presented == { TokenValue(id) : id \in TokenIds } \cup { <<"cio", 0>> }
TokenNames == {"", "bar"}
Routes == {"GET /api/v1/me", "PUT /api/v1/me/tokens"}
\* the endpoints that want an identity
IdentityRoutes == Routes \cup {"GET /api/v1/me/tokens"}
\* what the endpoint says of a body it cannot take
BodyErrors == {"invalid new token request", "max content length"}

\* ApiToken::belonging_to(user)
BelongingTo(tbl, user_id) == { id \in DOMAIN tbl : tbl[id].user_id = user_id }

\* ApiToken::insert: the row of a credential just issued
ApiTokenInsert(id, user_id, name) ==
    [id |-> id, user_id |-> user_id, name |-> name, token |-> TokenValue(id),
     last_used_at |-> None, revoked |-> FALSE]

BadRequest(op, detail) == [op |-> op, status |-> 400, detail |-> detail]

\* the caller already holds the maximum number of credentials
AtMaximum(count) == count >= MaxTokensPerUser

\* PUT /api/v1/me/tokens from a logged-in session, up to its insert: the
\* request is validated and the caller's credentials are counted
CountTokens(p, u, name) ==
    /\ tx[p].pc = "idle"
    /\ u \in DOMAIN users
    /\ LET op == "PUT /api/v1/me/tokens" IN
       IF name = ""
       THEN /\ last' = BadRequest(op, "name must have a value")
            /\ UNCHANGED tx
       ELSE IF AtMaximum(Cardinality(BelongingTo(api_tokens, u)))
       THEN /\ last' = BadRequest(op, "maximum tokens per user")
            /\ UNCHANGED tx
       ELSE /\ tx' = [tx EXCEPT ![p] =
                        [pc |-> "counted", user_id |-> u, name |-> name]]
            /\ UNCHANGED last
    /\ UNCHANGED <<identity, credentials>>

\* PUT /api/v1/me/tokens from a logged-in session with a body that has no
\* api_token object, or with one of more bytes than a request may have
RejectBody(u, detail) ==
    /\ u \in DOMAIN users
    /\ last' = BadRequest("PUT /api/v1/me/tokens", detail)
    /\ UNCHANGED <<identity, credentials, tx>>

\* ApiToken::insert(conn, user.id, name) and the answer that shows the
\* credential with its plaintext
CreateToken(p) ==
    /\ tx[p].pc = "counted"
    /\ api_tokens_id_seq < MaxTokens
    /\ LET id == api_tokens_id_seq + 1
           row == ApiTokenInsert(id, tx[p].user_id, tx[p].name) IN
       /\ api_tokens_id_seq' = id
       /\ api_tokens' = [i \in DOMAIN api_tokens \cup {id} |->
                           IF i = id THEN row ELSE api_tokens[i]]
       /\ last' = [op |-> "PUT /api/v1/me/tokens", status |-> 200,
                   api_token |-> row]
    /\ tx' = [tx EXCEPT ![p] = Idle]
    /\ UNCHANGED identity

\* what GET /api/v1/me/tokens shows of the caller's credentials
Listed(tbl, u) ==
    { [id |-> id, name |-> tbl[id].name] : id \in BelongingTo(tbl, u) }

\* GET /api/v1/me/tokens from a logged-in session
ListTokens(u) ==
    /\ u \in DOMAIN users
    /\ last' = [op |-> "GET /api/v1/me/tokens", user |-> u, status |-> 200,
                api_tokens |-> Listed(api_tokens, u)]
    /\ UNCHANGED <<identity, credentials, tx>>

\* a statement that removes no row
RevokeNone(tbl, u, id) == {}

\* a delete scoped by the id alone
RevokeAnyUsers(tbl, u, id) == DOMAIN tbl \cap {id}

\* the rows DELETE /api/v1/me/tokens/:id removes: the one with that id, if
\* it is the caller's
RevokeTarget(tbl, u, id) == BelongingTo(tbl, u) \cap {id}

\* DELETE /api/v1/me/tokens/:id from a logged-in session
RevokeToken(u, id) ==
    /\ u \in DOMAIN users
    /\ LET gone == RevokeTarget(api_tokens, u, id) IN
       api_tokens' = [i \in DOMAIN api_tokens \ gone |-> api_tokens[i]]
    /\ last' = [op |-> "DELETE /api/v1/me/tokens/:id", user |-> u, id |-> id,
                status |-> 200]
    /\ UNCHANGED <<identity, api_tokens_id_seq, tx>>

\* the revoked column is set on a row (a leaked credential disabled in place)
MarkRevoked(id) ==
    /\ id \in DOMAIN api_tokens
    /\ ~api_tokens[id].revoked
    /\ api_tokens' = [api_tokens EXCEPT ![id].revoked = TRUE]
    /\ UNCHANGED <<identity, api_tokens_id_seq, tx, last>>

\* the lookup without .filter(revoked.eq(false))
TokensRevokedOrNot(tbl, token_) ==
    { id \in DOMAIN tbl : tbl[id].token = token_ }

\* api_tokens.filter(token.eq(token_)).filter(revoked.eq(false))
Tokens(tbl, token_) ==
    { id \in DOMAIN tbl : tbl[id].token = token_ /\ tbl[id].revoked = FALSE }

\* an update that sets nothing
SetNothing(row, now) == row

\* a SET list that writes the token column as well
SetLastUsedAndToken(row, now) ==
    [row EXCEPT !.last_used_at = Some(now), !.token = <<"cio", 0>>]

\* .set(last_used_at.eq(now.nullable()))
SetLastUsed(row, now) == [row EXCEPT !.last_used_at = Some(now)]

\* update(tokens).set(...).returning(user_id).get_result: one statement
\* that stamps the matching rows and yields the owner, or NotFound
UpdateTokens(p, route, token_, now) ==
    /\ tx[p].pc = "idle"
    /\ LET tokens == Tokens(api_tokens, token_) IN
       IF tokens = {}
       THEN /\ tx' = [tx EXCEPT ![p] =
                        [pc |-> "found", route |-> route, token |-> token_,
                         result |-> "NotFound"]]
            /\ UNCHANGED api_tokens
       ELSE /\ api_tokens' = [i \in DOMAIN api_tokens |->
                                IF i \in tokens
                                THEN SetLastUsed(api_tokens[i], now)
                                ELSE api_tokens[i]]
            /\ \E i \in tokens :
                 tx' = [tx EXCEPT ![p] =
                          [pc |-> "stamped", route |-> route,
                           token |-> token_,
                           user_id_ |-> api_tokens[i].user_id]]
    /\ UNCHANGED <<identity, api_tokens_id_seq, last>>

\* a second statement that finds no row
UsersByIdNone(tbl, user_id_) == {}

\* users.filter(id.eq(user_id_)).get_result
UsersById(tbl, user_id_) == { id \in DOMAIN tbl : id = user_id_ }

\* Ok(users.filter(id.eq(user_id_)).get_result(conn)?)
FetchUser(p) ==
    /\ tx[p].pc = "stamped"
    /\ LET found == UsersById(users, tx[p].user_id_) IN
       IF found = {}
       THEN tx' = [tx EXCEPT ![p] =
                     [pc |-> "found", route |-> tx[p].route,
                      token |-> tx[p].token, result |-> "NotFound"]]
       ELSE \E id \in found :
              tx' = [tx EXCEPT ![p] =
                       [pc |-> "found", route |-> tx[p].route,
                        token |-> tx[p].token, result |-> "Ok",
                        user |-> users[id]]]
    /\ UNCHANGED <<identity, credentials, last>>

\* what an endpoint answers a request that carries no valid identity
Forbidden(op) == [op |-> op, status |-> 403]

\* the refusal as a 403, the answer to a request without identity
TokenAuthCreateForbidden == Forbidden("PUT /api/v1/me/tokens")

\* what PUT /api/v1/me/tokens answers a request authenticated by a token
TokenAuthCreate ==
    BadRequest("PUT /api/v1/me/tokens",
               "cannot use an API token to create a new API token")

\* a request that carries neither a session nor a token
Anonymous(route) ==
    /\ last' = Forbidden(route)
    /\ UNCHANGED <<identity, credentials, tx>>

\* the endpoint behind the authentication gate answers the request
Respond(p) ==
    /\ tx[p].pc = "found"
    /\ last' =
         IF tx[p].result # "Ok" THEN Forbidden(tx[p].route)
         ELSE IF tx[p].route = "PUT /api/v1/me/tokens" THEN TokenAuthCreate
         ELSE [op |-> tx[p].route, status |-> 200, user |-> tx[p].user]
    /\ tx' = [tx EXCEPT ![p] = Idle]
    /\ UNCHANGED <<identity, credentials>>

\* ---------------------------------------------------------- rights

\* CargoResult<T>
Ok(v) == [ok |-> TRUE, value |-> v]
Err(e) == [ok |-> FALSE, error |-> e]

Teams == {"t1", "t2"}
\* Owner::User(other_user), Owner::Team(team)
OwnerUser(id) == [kind |-> "User", id |-> id]
OwnerTeam(team) == [kind |-> "Team", team |-> team]
Owners == { OwnerUser(id) : id \in UserIds } \cup { OwnerTeam(t) : t \in Teams }
OwnerLists == UNION { [1..n -> Owners] : n \in 0..MaxOwners }

\* what the membership lookup of one team answers for the actor
LookupErrors == {"e1", "e2"}
Lookups == { Ok(TRUE), Ok(FALSE) } \cup { Err(e) : e \in LookupErrors }
\* app: the outside world as the lookups of one resolution see it
Apps == [Teams -> Lookups]

\* team.contains_user(app, self)
contains_user(app, team, self) == app[team]

\* a comparison that never holds
IsNobody(other_user, self) == FALSE

\* other_user.id == self.id
IsSelf(other_user, self) == other_user.id = self.id

\* unwrap_or(false) in the place of ?: a failed lookup counts as no answer
Swallowed(r) == FALSE

\* the ? operator: an Err leaves the function at once
Propagates(r) == ~r.ok

\* best = Publish or else None: a team without the actor resets best
Overwritten(best, member) == IF member THEN "Publish" ELSE "None"

\* if ... { best = Rights::Publish; }
Raised(best, member) == IF member THEN "Publish" ELSE best

\* for owner in owners { match *owner { ... } }, from best on
RECURSIVE ScanOwners(_, _, _, _)
ScanOwners(self, app, owners, best) ==
    IF owners = <<>>
    THEN Ok(best)
    ELSE LET owner == Head(owners) IN
         IF owner.kind = "User"
         THEN IF IsSelf(owner, self)
              THEN Ok("Full")
              ELSE ScanOwners(self, app, Tail(owners), best)
         ELSE LET r == contains_user(app, owner.team, self) IN
              IF Propagates(r)
              THEN r
              ELSE ScanOwners(self, app, Tail(owners),
                              Raised(best, r.ok /\ r.value))

\* User::rights
rights(self, app, owners) == ScanOwners(self, app, owners, "None")

\* a caller is about to resolve the actor's rights over a resource with
\* these owners
BeginRights(p, self, app, owners) ==
    /\ tx[p].pc = "idle"
    /\ tx' = [tx EXCEPT ![p] = [pc |-> "rights", self |-> self, app |-> app,
                                owners |-> owners]]
    /\ UNCHANGED <<identity, credentials, last>>

\* user.rights(app, &owners) returns to the caller
CallRights(p) ==
    /\ tx[p].pc = "rights"
    /\ last' = [op |-> "rights", self |-> tx[p].self, app |-> tx[p].app,
                owners |-> tx[p].owners,
                result |-> rights(tx[p].self, tx[p].app, tx[p].owners)]
    /\ tx' = [tx EXCEPT ![p] = Idle]
    /\ UNCHANGED <<identity, credentials>>

\* ----------------------------------------------------- specification

Init ==
    /\ users = <<>>
    /\ users_id_seq = 0
    /\ emails = {}
    /\ outbox = {}
    /\ confirm_mails = [id \in UserIds |-> 0]
    /\ api_tokens = <<>>
    /\ api_tokens_id_seq = 0
    /\ tx = [p \in Procs |-> Idle]
    /\ last = [op |-> "none"]

\* the identity store: reconciliations of any candidate record
NextIdentity ==
    \/ \E p \in Procs, nu \in NewUsers : Upsert(p, nu)
    \/ \E p \in Procs : EmailStep(p)
    \/ \E p \in Procs : DbError(p)
    \/ \E p \in Procs : Commit(p)
    \/ \E e \in emails : ConfirmEmail(e)

\* the credential store and the authentication gate
NextTokens ==
    \/ \E p \in Procs, u \in UserIds, name \in TokenNames :
          CountTokens(p, u, name)
    \/ \E p \in Procs : CreateToken(p)
    \/ \E u \in UserIds : ListTokens(u)
    \/ \E u \in UserIds, id \in TokenIds : RevokeToken(u, id)
    \/ \E id \in TokenIds : MarkRevoked(id)
    \/ \E p \in Procs, route \in Routes, t \in Presented,
          now \in 1..MaxClock :
          UpdateTokens(p, route, t, now)
    \/ \E p \in Procs : FetchUser(p)
    \/ \E p \in Procs : Respond(p)

\* the users the token tests log in: new_user(login), no address
TestUsers ==
    { nu \in NewUsers :
        nu.gh_id = Sentinel /\ nu.gh_login = "foo" /\ nu.email = None }

NextCredential ==
    \/ \E p \in Procs, nu \in TestUsers : Upsert(p, nu)
    \/ \E p \in Procs : EmailStep(p)
    \/ \E p \in Procs : DbError(p)
    \/ \E p \in Procs : Commit(p)
    \/ NextTokens

\* the rights resolver
NextRights == \E p \in Procs : CallRights(p)

\* requests the endpoints turn away before they reach the store
NextRefusals ==
    \/ \E u \in UserIds, detail \in BodyErrors : RejectBody(u, detail)
    \/ \E route \in IdentityRoutes : Anonymous(route)

NextRequests == NextCredential \/ NextRefusals

Next ==
    \/ NextIdentity
    \/ NextTokens
    \/ NextRefusals
    \/ \E p \in Procs, id \in UserIds, app \in Apps, owners \in OwnerLists :
          BeginRights(p, [id |-> id], app, owners)
    \/ NextRights

Spec == Init /\ [][Next]_vars

SpecIdentity == Init /\ [][NextIdentity]_vars

SpecCredential == Init /\ [][NextCredential]_vars

SpecRequests == Init /\ [][NextRequests]_vars

\* one call of User::rights: any actor, any owner list, any behaviour of
\* the membership lookups
InitRights ==
    /\ users = <<>>
    /\ users_id_seq = 0
    /\ emails = {}
    /\ outbox = {}
    /\ confirm_mails = [id \in UserIds |-> 0]
    /\ api_tokens = <<>>
    /\ api_tokens_id_seq = 0
    /\ last = [op |-> "none"]
    /\ \E p \in Procs, id \in UserIds, app \in Apps, owners \in OwnerLists :
          tx = [q \in Procs |->
                  IF q = p
                  THEN [pc |-> "rights", self |-> [id |-> id], app |-> app,
                        owners |-> owners]
                  ELSE Idle]

SpecRights == InitRights /\ [][NextRights]_vars

\* ------------------------------------------------------------ claims

\* process p's create_or_update returns Ok in this step
Commits(p) ==
    /\ tx[p].pc = "ready"
    /\ tx'[p].pc = "idle"
    /\ last'.op = "create_or_update"
    /\ last'.result = "Ok"

\* process p's create_or_update returns an error in this step
Fails(p) ==
    /\ tx[p].pc \in {"upserted", "ready"}
    /\ tx'[p].pc = "idle"
    /\ last'.op = "create_or_update"
    /\ last'.result # "Ok"

RowsWithGhId(tbl, g) == { id \in DOMAIN tbl : tbl[id].gh_id = g }

\* C1: in every reachable state, whatever the interleaving of concurrent
\* create_or_update transactions, the users table holds at most one row for
\* each positive gh_id; rows with a non-positive gh_id may repeat.
C1_UniquePositiveGhId ==
    \A a \in DOMAIN users, b \in DOMAIN users :
        (users[a].gh_id > 0 /\ users[a].gh_id = users[b].gh_id) => a = b

\* a second transaction for a committed positive gh_id took the conflict
\* path while another transaction is open
C1_Witness ==
    \E p \in Procs, q \in Procs :
        /\ p # q
        /\ tx[p].pc = "ready" /\ ~tx[p].inserted /\ tx[p].row.gh_id = 1
        /\ tx[q].pc \in {"upserted", "ready"}
        /\ RowsWithGhId(users, 1) # {}

\* C2: a successful create_or_update for a positive gh_id that a row already
\* carries leaves exactly that one row with the gh_id; the row's login, name,
\* avatar and access token equal the call's input, and the call returns the
\* local id the row had before (the id the earlier call returned).
C2_UpsertIdempotent ==
    [][\A p \in Procs :
         (Commits(p) /\ tx[p].nu.gh_id > 0
            /\ RowsWithGhId(users, tx[p].nu.gh_id) # {})
         => LET nu == tx[p].nu
                before == RowsWithGhId(users, nu.gh_id)
                after == RowsWithGhId(users', nu.gh_id) IN
            /\ after = before
            /\ Cardinality(after) = 1
            /\ last'.user.id \in before
            /\ users'[last'.user.id] = last'.user
            /\ last'.user.gh_login = nu.gh_login
            /\ last'.user.name = nu.name
            /\ last'.user.gh_avatar = nu.gh_avatar
            /\ last'.user.gh_access_token = nu.gh_access_token]_vars

\* the second call for gh_id 1 returned, with the other profile
C2_Witness ==
    /\ last.op = "create_or_update" /\ last.result = "Ok"
    /\ ~last.inserted
    /\ last.user.gh_id = 1
    /\ last.user.gh_login = "bar"
    /\ last.user.email = Some("a@x.com")
    /\ users[last.user.id] = last.user

\* C3: every successful create_or_update whose gh_id is the sentinel (-1)
\* inserts a new row under a fresh local id and updates no existing row, so
\* two such calls produce two distinct rows whatever rows already exist.
C3_SentinelAlwaysInserts ==
    [][\A p \in Procs :
         (Commits(p) /\ tx[p].nu.gh_id = Sentinel)
         => /\ last'.user.id \notin DOMAIN users
            /\ DOMAIN users' = DOMAIN users \cup {last'.user.id}
            /\ \A id \in DOMAIN users : users'[id] = users[id]
            /\ users'[last'.user.id].gh_id = Sentinel]_vars

\* two rows carry the sentinel
C3_Witness ==
    \E a \in DOMAIN users, b \in DOMAIN users :
        a # b /\ users[a].gh_id = Sentinel /\ users[b].gh_id = Sentinel

\* C4: a create_or_update that fails (the notification, or any step inside
\* the transaction) returns an error and leaves the users and emails tables
\* as they are; no step before the commit changes them either; a call that
\* succeeds commits the user row and the Email record it made together.
C4_FailClosed ==
    [][\A p \in Procs :
         /\ Fails(p) => (users' = users /\ emails' = emails
                         /\ last'.result \in {"NotFound", "DatabaseError"})
         /\ (tx'[p] # tx[p] /\ tx'[p].pc \in {"upserted", "ready"})
              => (users' = users /\ emails' = emails)
         /\ Commits(p) => /\ tx[p].row.id \in DOMAIN users'
                          /\ users'[tx[p].row.id] = tx[p].row
                          /\ tx[p].mail \subseteq emails'
                          /\ (tx[p].sent => tx[p].mail # {})]_vars

\* the notification of a first insert failed: an id is used up and the
\* tables are empty
C4_Witness ==
    /\ last.op = "create_or_update" /\ last.result = "NotFound"
    /\ users_id_seq = 1
    /\ DOMAIN users = {}
    /\ emails = {}

EmailsOf(tbl, user_id, address) ==
    { e \in tbl : e.user_id = user_id /\ Some(e.email) = address }

\* C5: a create_or_update that finds an Email record for the user's stored
\* address leaves the record (token, verified flag) as it is and sends
\* nothing; so every user with a stored address has exactly one Email record
\* for it and exactly one notification from the calls that succeeded.
C5_InsertIfAbsent ==
    /\ [](\A id \in DOMAIN users :
            /\ Cardinality({ e \in emails : e.user_id = id }) =
                 (IF users[id].email = None THEN 0 ELSE 1)
            /\ users[id].email # None =>
                 /\ Cardinality(EmailsOf(emails, id, users[id].email)) = 1
                 /\ confirm_mails[id] = 1)
    /\ [][\A p \in Procs :
            /\ tx'[p] # tx[p] => emails \subseteq emails'
            /\ (tx[p].pc = "upserted"
                  /\ EmailsOf(emails, tx[p].row.id, tx[p].row.email) # {}
                  /\ tx'[p].pc = "ready")
                 => (tx'[p].mail = {} /\ ~tx'[p].sent /\ outbox' = outbox)]_vars

\* a later call returned for a user whose Email record is already verified
C5_Witness ==
    /\ last.op = "create_or_update" /\ last.result = "Ok" /\ ~last.inserted
    /\ last.user.email # None
    /\ \E e \in emails : e.user_id = last.user.id /\ e.verified
    /\ confirm_mails[last.user.id] = 1

\* process p's find_by_api_token runs its UPDATE in this step
Looks(p) == tx[p].pc = "idle" /\ tx'[p].pc \in {"stamped", "found"}

\* the credentials that carry the token and are not revoked
Live(tbl, t) == { id \in DOMAIN tbl : tbl[id].token = t /\ ~tbl[id].revoked }

\* C6: find_by_api_token(t) returns user U exactly when, at the lookup, a
\* credential exists with token t, revoked = false and user_id = U.id;
\* otherwise (unknown token, or only revoked credentials carry t) it fails
\* with NotFound and returns no user.
C6_AuthenticationGate ==
    [][\A p \in Procs :
         /\ Looks(p) =>
              LET live == Live(api_tokens, tx'[p].token) IN
              IF live = {}
              THEN tx'[p].pc = "found" /\ tx'[p].result = "NotFound"
              ELSE /\ tx'[p].pc = "stamped"
                   /\ \E id \in live : tx'[p].user_id_ = api_tokens[id].user_id
         /\ (tx[p].pc = "stamped" /\ tx'[p] # tx[p]) =>
              /\ tx'[p].pc = "found"
              /\ tx'[p].result = "Ok"
              /\ tx'[p].token = tx[p].token
              /\ tx'[p].user.id = tx[p].user_id_
              /\ tx'[p].user = users[tx[p].user_id_]]_vars

\* one caller was admitted while another, presenting the token of a revoked
\* credential, was turned away
C6_Witness ==
    \E p \in Procs, q \in Procs, id \in DOMAIN api_tokens :
        /\ tx[p].pc = "found" /\ tx[p].result = "Ok"
        /\ tx[q].pc = "found" /\ tx[q].result = "NotFound"
        /\ api_tokens[id].revoked /\ api_tokens[id].token = tx[q].token

\* C7: a credential just issued has last_used_at = null; a successful
\* find_by_api_token sets last_used_at of exactly the matched credential to a
\* current time (non-null) and leaves its token, name, owner and revoked
\* flag, every other credential and every user row unchanged.
C7_LastUsedStamp ==
    [][/\ api_tokens_id_seq' # api_tokens_id_seq =>
            /\ api_tokens_id_seq' \in DOMAIN api_tokens'
            /\ api_tokens'[api_tokens_id_seq'].last_used_at = None
       /\ \A p \in Procs :
            /\ (Looks(p) /\ tx'[p].pc = "stamped") =>
                 /\ \E id \in Live(api_tokens, tx'[p].token), now \in 1..MaxClock :
                      api_tokens' =
                        [api_tokens EXCEPT ![id].last_used_at = Some(now)]
                 /\ users' = users
            /\ (tx'[p] # tx[p] /\ ~(Looks(p) /\ tx'[p].pc = "stamped")
                  /\ (Looks(p) \/ tx[p].pc \in {"stamped", "found"})) =>
                 (api_tokens' = api_tokens /\ users' = users)]_vars

\* a credential issued unused has been stamped by one authentication
C7_Witness ==
    \E p \in Procs, id \in DOMAIN api_tokens :
        /\ tx[p].pc = "stamped" /\ tx[p].token = api_tokens[id].token
        /\ api_tokens[id].last_used_at # None

\* the session of user u gets, in this step, the answer to its request to
\* revoke credential id.  (A repeat of the very request answered last is not
\* seen: nothing that leaves last alone issues a credential, so the row it
\* names is not the caller's and the repeat changes nothing.)
Revokes(u, id) ==
    /\ last'.op = "DELETE /api/v1/me/tokens/:id"
    /\ last'.user = u /\ last'.id = id
    /\ last' # last

\* the credential with this id was issued and can no longer authenticate
Dead(tbl, seq, id) == id <= seq /\ (id \notin DOMAIN tbl \/ tbl[id].revoked)

NeverAgain ==
    \A id \in TokenIds :
        /\ Dead(api_tokens, api_tokens_id_seq, id)
             => Dead(api_tokens', api_tokens_id_seq', id)
        /\ \A p \in Procs :
             (Dead(api_tokens, api_tokens_id_seq, id) /\ Looks(p)
                /\ tx'[p].token = TokenValue(id))
             => (tx'[p].pc = "found" /\ tx'[p].result = "NotFound")

TokenAuthenticatedCreate(p) ==
    /\ tx[p].pc = "found" /\ tx[p].result = "Ok"
    /\ tx'[p].pc = "idle"
    /\ last'.op = "PUT /api/v1/me/tokens"

\* no step of a request that came with a bearer token adds or removes a
\* credential row
TokenRequestAddsNoRow ==
    \A p \in Procs :
        (tx'[p] # tx[p] /\ (Looks(p) \/ tx[p].pc \in {"stamped", "found"}))
        => /\ DOMAIN api_tokens' = DOMAIN api_tokens
           /\ api_tokens_id_seq' = api_tokens_id_seq

Issues(p) == tx[p].pc = "counted" /\ tx'[p].pc = "idle"

\* the session of some user is refused a credential in this step
Refused(detail) ==
    /\ last' # last
    /\ last'.op = "PUT /api/v1/me/tokens"
    /\ last'.status = 400
    /\ last'.detail = detail

\* C11: through Issue a user's number of credentials never rises above the
\* configured maximum, for every sequence and interleaving of concurrent
\* Issue requests by the same user: a row is inserted only while the user
\* holds fewer than the maximum, and a refusal for the maximum creates no row.
C11_CredentialCap ==
    /\ [](\A u \in UserIds :
            Cardinality(BelongingTo(api_tokens, u)) <= MaxTokensPerUser)
    /\ [][/\ \A p \in Procs :
              Issues(p) =>
                Cardinality(BelongingTo(api_tokens, tx[p].user_id))
                  < MaxTokensPerUser
          /\ Refused("maximum tokens per user") =>
                api_tokens' = api_tokens]_vars

\* C12: in every reachable state any two distinct credential rows, of the
\* same or of different users, issued with the same or different names, carry
\* different token values; a row keeps the token value it was created with,
\* whatever authentications or revocations follow, and no id is used again.
C12_TokenValues ==
    /\ [](\A a \in DOMAIN api_tokens, b \in DOMAIN api_tokens :
            a # b => api_tokens[a].token # api_tokens[b].token)
    /\ [][/\ \A id \in DOMAIN api_tokens \cap DOMAIN api_tokens' :
              api_tokens'[id].token = api_tokens[id].token
          /\ \A id \in DOMAIN api_tokens' \ DOMAIN api_tokens :
              id > api_tokens_id_seq /\ id = api_tokens_id_seq']_vars

\* two credentials issued under one name: one has authenticated a request,
\* the other has been revoked in place
C12_Witness ==
    \E a \in DOMAIN api_tokens, b \in DOMAIN api_tokens :
        /\ a # b
        /\ api_tokens[a].name = api_tokens[b].name
        /\ api_tokens[a].last_used_at # None
        /\ api_tokens[b].revoked

\* the owner list holds a User owner with the actor's id
OwnsAsUser(self, owners) ==
    \E i \in DOMAIN owners :
        owners[i].kind = "User" /\ owners[i].id = self.id

\* the Team owners of the list whose lookup answers r
TeamsAnswering(app, owners, R) ==
    { owners[i].team : i \in { j \in DOMAIN owners :
                                  /\ owners[j].kind = "Team"
                                  /\ app[owners[j].team] \in R } }

Failing(app, owners) ==
    TeamsAnswering(app, owners, { Err(e) : e \in LookupErrors })

\* every ordering of the list
Orderings(owners) ==
    { [i \in DOMAIN owners |-> owners[f[i]]] :
        f \in { g \in [DOMAIN owners -> DOMAIN owners] :
                   \A i \in DOMAIN owners, j \in DOMAIN owners :
                       g[i] = g[j] => i = j } }

\* C13: when no team-membership lookup fails, User::rights returns Full if
\* some User owner of the list has the actor's id (whatever the actor's team
\* memberships), otherwise Publish if the actor is a member of at least one
\* Team owner of the list, otherwise None; the empty list yields None.
C13_RightsResult ==
    (last.op = "rights" /\ Failing(last.app, last.owners) = {})
    => last.result =
         Ok(IF OwnsAsUser(last.self, last.owners) THEN "Full"
            ELSE IF TeamsAnswering(last.app, last.owners, {Ok(TRUE)}) # {}
                 THEN "Publish"
                 ELSE "None")

\* the actor owns the resource and is a member of a team listed first
C13_Witness ==
    /\ last.op = "rights"
    /\ last.owners = <<OwnerTeam("t1"), OwnerUser(last.self.id)>>
    /\ last.app["t1"] = Ok(TRUE)
    /\ last.result = Ok("Full")

\* the errors of the list's failing lookups
FailuresOf(app, owners) == { app[t] : t \in Failing(app, owners) }

\* C14 as stated: for every actor, every owner list and every permutation
\* of the list, User::rights returns the identical outcome (the same Rights
\* value or the same error), whatever the membership lookups answer,
\* failures included.
C14_OrderIndependent ==
    last.op = "rights" =>
      \A perm \in Orderings(last.owners) :
          rights(last.self, last.app, perm) = last.result

\* C14 as amended: every permutation of the list gets the identical Rights
\* value when no lookup of a listed team fails; when one fails and no User
\* owner has the actor's id, every permutation gets an error, that of one of
\* the failing lookups; when one fails and a User owner has the actor's id,
\* a permutation gets Full or one of those errors, depending on the order.
C14_OrderIndependentUnlessFailing ==
    last.op = "rights" =>
      \A perm \in Orderings(last.owners) :
          LET r == rights(last.self, last.app, perm)
              failures == FailuresOf(last.app, last.owners) IN
          IF failures = {}
          THEN r = last.result
          ELSE IF ~OwnsAsUser(last.self, last.owners)
          THEN r \in failures /\ last.result \in failures
          ELSE /\ r \in failures \cup {Ok("Full")}
               /\ last.result \in failures \cup {Ok("Full")}

\* three owners, the actor a member of the second team only: Publish
C14_Witness ==
    /\ last.op = "rights"
    /\ last.owners = <<OwnerTeam("t2"), OwnerTeam("t1"), OwnerUser(2)>>
    /\ last.self.id = 1
    /\ last.app["t1"] = Ok(TRUE) /\ last.app["t2"] = Ok(FALSE)
    /\ last.result = Ok("Publish")

\* the index of the first owner that ends the scan early, 0 if none: a User
\* owner with the actor's id or a Team owner whose lookup fails
FirstDecisive(self, app, owners) ==
    LET decisive == { i \in DOMAIN owners :
                        \/ owners[i].kind = "User" /\ owners[i].id = self.id
                        \/ owners[i].kind = "Team" /\ ~app[owners[i].team].ok }
    IN IF decisive = {} THEN 0
       ELSE CHOOSE i \in decisive : \A j \in decisive : i <= j

\* C15 as stated: whenever the owner list contains a Team whose membership
\* lookup for the actor fails, User::rights returns an error for the whole
\* resolution, never None, Publish or Full.
C15_FailurePropagates ==
    (last.op = "rights" /\ Failing(last.app, last.owners) # {})
    => ~last.result.ok

\* C15 as amended: when the list contains a Team whose lookup fails,
\* User::rights never returns None or Publish; it returns the error of the
\* first such Team unless a User owner with the actor's id stands before it
\* in the list, in which case the lookup is not made and it returns Full.
C15_FailurePropagatesUnlessFull ==
    (last.op = "rights" /\ Failing(last.app, last.owners) # {})
    => LET i == FirstDecisive(last.self, last.app, last.owners) IN
       /\ i # 0
       /\ last.result =
            (IF last.owners[i].kind = "User" THEN Ok("Full")
             ELSE last.app[last.owners[i].team])

\* the actor is a member of the first team and the lookup of the second
\* fails: the error, not Publish
C15_Witness ==
    /\ last.op = "rights"
    /\ last.owners = <<OwnerTeam("t1"), OwnerTeam("t2")>>
    /\ last.app["t1"] = Ok(TRUE) /\ last.app["t2"] = Err("e1")
    /\ last.result = Err("e1")

\* the revocation of credential id commits in this step: its row goes, or
\* is marked revoked
RevocationCommits(id) ==
    /\ id \in DOMAIN api_tokens /\ ~api_tokens[id].revoked
    /\ (id \notin DOMAIN api_tokens' \/ api_tokens'[id].revoked)

\* C16: for any interleaving of find_by_api_token(t) with a Revoke of the
\* credential carrying t, the authentication is either rejected with every
\* last_used_at unchanged, or admitted: the credential was valid at the
\* lookup, before the revocation committed, it was stamped, and the user is
\* returned even if the revocation commits before the call ends; no
\* credential is stamped by an authentication that is rejected.
C16_AdmittedOrRejected ==
    [][\A p \in Procs, id \in TokenIds :
         /\ (Looks(p) /\ tx'[p].token = TokenValue(id) /\ tx'[p].pc = "found")
              => /\ tx'[p].result = "NotFound"
                 /\ api_tokens' = api_tokens
                 /\ (id \notin DOMAIN api_tokens \/ api_tokens[id].revoked)
         /\ (Looks(p) /\ tx'[p].token = TokenValue(id)
               /\ tx'[p].pc = "stamped")
              => /\ id \in DOMAIN api_tokens /\ ~api_tokens[id].revoked
                 /\ ~RevocationCommits(id)
                 /\ api_tokens'[id].last_used_at # None
                 /\ tx'[p].user_id_ = api_tokens[id].user_id
         /\ (tx[p].pc = "stamped" /\ tx[p].token = TokenValue(id)
               /\ tx'[p] # tx[p])
              => /\ tx'[p].pc = "found" /\ tx'[p].result = "Ok"
                 /\ tx'[p].user.id = tx[p].user_id_
         /\ (RevocationCommits(id) /\ id \in DOMAIN api_tokens')
              => api_tokens'[id].last_used_at = api_tokens[id].last_used_at
         /\ (RevocationCommits(id) /\ tx[p].pc \in {"stamped", "found"})
              => tx'[p] = tx[p]]_vars

\* the owner's revoke committed between the UPDATE and the SELECT of an
\* authentication, which then returned the user
C16_Witness ==
    \E p \in Procs, id \in TokenIds :
        /\ tx[p].pc = "found" /\ tx[p].result = "Ok"
        /\ tx[p].token = TokenValue(id)
        /\ id <= api_tokens_id_seq /\ id \notin DOMAIN api_tokens
        /\ last.op = "DELETE /api/v1/me/tokens/:id" /\ last.id = id

\* process p's upsert statement runs in this step
Upserts(p) == tx[p].pc = "idle" /\ tx'[p].pc = "upserted"

\* C17: when create_or_update matches an existing row (same positive gh_id)
\* the row's local id and stored email stay as they are whatever email the
\* call carries; the returned User shows the stored email; the Email record
\* and the notification are made for the stored email only; the incoming
\* email is used only when the row is newly inserted.
C17_StoredAddressWins ==
    [][\A p \in Procs :
         /\ (Upserts(p) /\ ~tx'[p].inserted) =>
              \E id \in RowsWithGhId(users, tx'[p].nu.gh_id) :
                  /\ tx'[p].nu.gh_id > 0
                  /\ tx'[p].row.id = id
                  /\ tx'[p].row.email = users[id].email
         /\ (Upserts(p) /\ tx'[p].inserted) =>
              /\ tx'[p].row.email = tx'[p].nu.email
              /\ tx'[p].row.id \notin DOMAIN users
         /\ (tx[p].pc = "upserted" /\ tx'[p].pc = "ready") =>
              /\ tx'[p].row = tx[p].row
              /\ \A e \in tx'[p].mail :
                    e.user_id = tx[p].row.id /\ Some(e.email) = tx[p].row.email
         /\ (tx[p].pc = "upserted" /\ tx'[p] # tx[p]) =>
              \A m \in outbox' \ outbox :
                  m[1] = tx[p].row.id /\ Some(m[2]) = tx[p].row.email
         /\ (Commits(p) /\ ~tx[p].inserted) =>
              LET id == tx[p].row.id IN
              /\ last'.user.id = id
              /\ last'.user.email = users[id].email
              /\ users'[id].email = users[id].email
              /\ \A e \in emails' \ emails :
                    e.user_id = id /\ Some(e.email) = users[id].email
         /\ (Commits(p) /\ tx[p].inserted) =>
              last'.user.email = tx[p].nu.email]_vars

\* a call that carries b@x.com matched the row that stores a@x.com
C17_Witness ==
    \E p \in Procs :
        /\ tx[p].pc = "ready" /\ ~tx[p].inserted
        /\ tx[p].nu.email = Some("b@x.com")
        /\ tx[p].row.email = Some("a@x.com")
        /\ users[tx[p].row.id].email = Some("a@x.com")

\* the session of user u gets, in this step, the list of its credentials
Lists(u) ==
    /\ last' # last
    /\ last'.op = "GET /api/v1/me/tokens"
    /\ last'.user = u

store == <<users, emails, api_tokens>>

\* a step of the request that process p sent with a bearer token
TokenStep(p) ==
    /\ tx'[p] # tx[p]
    /\ (Looks(p) \/ tx[p].pc \in {"stamped", "found"})

\* that request: as it stands after the step or, once answered, before it
RequestOf(p) == IF tx'[p].pc \in {"stamped", "found"} THEN tx'[p] ELSE tx[p]

\* the request will be refused: with 403 when the token admits nobody, with
\* 400 when it asks for a new token
EndsRefused(r) ==
    \/ r.route = "PUT /api/v1/me/tokens"
    \/ (r.pc = "found" /\ r.result # "Ok")

\* an endpoint answers a request with a validation or forbidden failure
AnswersRefusal ==
    /\ last' # last
    /\ last'.op \in IdentityRoutes
    /\ last'.status \in {400, 403}

\* C19 as stated: every request that ends in a ValidationFailure (empty
\* name, cap exceeded, malformed or oversized body) or a Forbidden condition
\* (unauthenticated list/issue, token-authenticated issue) leaves the
\* entire store unchanged: no credential row is created and no field of any
\* credential, last_used_at of the authenticating token included, changes.
C19_NoMutation ==
    [][/\ \A p \in Procs :
            (TokenStep(p) /\ EndsRefused(RequestOf(p))) => store' = store
       /\ AnswersRefusal => store' = store]_vars

\* C19 as amended: such a request creates and removes no row and changes
\* no user, no Email record and no field of any credential, with one
\* exception: when it presents a valid token, the gate stamps last_used_at
\* of that token's credential before the endpoint refuses the request.
C19_NoMutationButStamp ==
    [][/\ \A p \in Procs :
            (TokenStep(p) /\ EndsRefused(RequestOf(p))) =>
              /\ users' = users /\ emails' = emails
              /\ api_tokens_id_seq' = api_tokens_id_seq
              /\ \/ api_tokens' = api_tokens
                 \/ /\ Looks(p) /\ tx'[p].pc = "stamped"
                    /\ \E id \in Live(api_tokens, tx'[p].token),
                          now \in 1..MaxClock :
                          api_tokens' =
                            [api_tokens EXCEPT ![id].last_used_at = Some(now)]
       /\ AnswersRefusal =>
            (store' = store /\ api_tokens_id_seq' = api_tokens_id_seq)]_vars

\* a request for a new token was admitted by the gate: the credential it
\* presented is stamped and the refusal is still to come
C19_Witness ==
    \E p \in Procs, id \in DOMAIN api_tokens :
        /\ tx[p].pc = "found" /\ tx[p].result = "Ok"
        /\ tx[p].route = "PUT /api/v1/me/tokens"
        /\ tx[p].token = api_tokens[id].token
        /\ api_tokens[id].last_used_at # None
        /\ last.op = "PUT /api/v1/me/tokens" /\ last.status = 403

\* process p's create_or_update fails in this step, and not on a statement
\* or the commit: on the verification mail
NotificationFails(p) ==
    /\ Fails(p)
    /\ tx[p].pc = "upserted"
    /\ tx[p].row.email # None
    /\ last'.result # "DatabaseError"

\* C20: when the verification-email notification fails inside
\* create_or_update, the error returned to the caller is a
\* DependencyFailure, distinguishable from the NotFound of missing rows and
\* invalid credentials; the failure is not turned into another kind.
C20_DependencyFailureKept ==
    [][\A p \in Procs :
         NotificationFails(p) =>
           /\ last'.result = "DependencyFailure"
           /\ last'.result # "NotFound"]_vars

====
